---- MODULE Spec2Model ----
(***************************************************************************)
(* Sun-exposure simulation of Projeto-Paisagismo: the sample grid          *)
(* (src/scene.py), the ephemeris filter (src/solar.py), the per-timestep   *)
(* occlusion test and its scheduling (src/simulate.py), the cached run and *)
(* the dashboard script that stores and classifies the result (app.py,     *)
(* src/visualize.py, scripts/export_dxf.py).                               *)
(*                                                                         *)
(* Units.  Lengths are integers in half-metres (the resolution slider      *)
(* moves in steps of 0.5 m).  Times are minutes.  Sunlit hours are exact   *)
(* rationals <<n, d>> in lowest terms.  Trigonometric values are fixed     *)
(* point, taken from tables.                                               *)
(***************************************************************************)
EXTENDS Integers, Sequences, FiniteSets, TLC

VARIABLES
    IS_CLOUD,            \* app.py:22, the constrained (Cloud) profile
    config,              \* config['simulation']: use_multiprocessing, cpu_cores
    session_sun_hours,   \* st.session_state.sun_hours
    session_grid_points, \* st.session_state.grid_points
    cache,               \* st.cache_data store of run_cached_simulation
    pc,                  \* position of the dashboard script
    args,                \* widget values of the run in progress / last run
    grid_points,         \* run_cached_simulation: grid_points
    solar_pos,           \* run_cached_simulation: solar_pos (rows above horizon)
    inflight,            \* timestep tasks a worker is computing
    completed,           \* <<task index, mask>> in completion order
    results_df,          \* run_full_simulation: one column (mask) per row of solar_pos
    ret,                 \* the triple returned by run_cached_simulation
    sun_hours,           \* the script's sun_hours after the annual adjustment
    signals,             \* st.warning / st.info / st.error / st.success of the run
    point_classes,       \* create_planting_plan: point_classes
    dxf_layers,          \* export_to_dxf: layer of every exported point
    runs,                \* number of button presses so far
    reported,            \* every <<widget values, vector>> the script has reported
    fn_args,             \* arguments of a function applied on its own
    fn_ret               \* its result

mainVars == <<IS_CLOUD, config, session_sun_hours, session_grid_points, cache, pc,
              args, grid_points, solar_pos, inflight, completed, results_df, ret,
              sun_hours, signals, point_classes, dxf_layers, runs, reported>>

fnVars == <<fn_args, fn_ret>>

vars == <<IS_CLOUD, config, session_sun_hours, session_grid_points, cache, pc,
          args, grid_points, solar_pos, inflight, completed, results_df, ret,
          sun_hours, signals, point_classes, dxf_layers, runs, reported, fn_args,
          fn_ret>>

\* Python's None and a present value: the empty and the one-element tuple.
None == <<>>

Some(v) == <<v>>

Val(o) == o[1]

-----------------------------------------------------------------------------
(* Bounds of the model. *)

MaxRadius == 12      \* largest boundary radius tried on create_grid_points (half-metres)
MaxResolution == 8   \* largest resolution tried on create_grid_points (half-metres)
DaysInYear == 3      \* calendar days of the model's year (January 1 to December 31)
MaxRuns == 2         \* button presses followed
MaxTimesteps == 3    \* longest list of masks handed to calculate_sun_hours on its own
MaxQuarterHours == 28 \* largest sunlit-hours value classified on its own, in quarter hours
MaxLen == 450        \* longest sequence handed to the Cloud limit on its own

-----------------------------------------------------------------------------
(* Arithmetic helpers. *)

Abs(x) == IF x < 0 THEN -x ELSE x

Min(a, b) == IF a <= b THEN a ELSE b

RECURSIVE Gcd(_, _)
Gcd(a, b) == IF b = 0 THEN a ELSE Gcd(b, a % b)

\* numpy float arithmetic on values that are exact rationals here:
\* n / d kept in lowest terms with d > 0.
Frac(n, d) == LET g == Gcd(Abs(n), d) IN <<n \div g, d \div g>>

FracDiv(q, k) == Frac(q[1], q[2] * k)

FracAdd(p, q) == Frac(p[1] * q[2] + q[1] * p[2], p[2] * q[2])

\* p >= q
FracGeq(p, q) == p[1] * q[2] >= q[1] * p[2]

CeilDiv(a, b) == (a + b - 1) \div b

-----------------------------------------------------------------------------
(* src/scene.py *)

\* Fixed-point scale of the polygon's vertex coordinates.
Scale == 1000

\* floor(Scale * cos(k * pi / 32)), k = 0..16: a quarter turn of the 64-gon
\* that shapely's buffer() makes of a point (16 segments per quarter circle).
CosQuarter == <<1000, 995, 980, 956, 923, 881, 831, 773, 707,
                634, 555, 471, 382, 290, 195, 98, 0>>

CosTab(k) ==
    LET j == k % 64
    IN  IF j <= 16 THEN CosQuarter[j + 1]
        ELSE IF j <= 32 THEN -CosQuarter[32 - j + 1]
        ELSE IF j <= 48 THEN -CosQuarter[j - 32 + 1]
        ELSE CosQuarter[64 - j + 1]

SinTab(k) == CosTab(k + 48)

\* Point(center).buffer(radius), center = (0, 0): the ring of 64 vertices on
\* the circle, clockwise from (radius, 0), in 1/Scale half-metres.
create_circular_area(radius) ==
    [k \in 1..64 |-> <<radius * CosTab(64 - (k - 1)), radius * SinTab(64 - (k - 1))>>]

\* area.bounds = (xmin, ymin, xmax, ymax), in half-metres.
SeqMin(s, c) == CHOOSE m \in {s[i][c] : i \in DOMAIN s} :
                   \A i \in DOMAIN s : m <= s[i][c]

SeqMax(s, c) == CHOOSE m \in {s[i][c] : i \in DOMAIN s} :
                   \A i \in DOMAIN s : m >= s[i][c]

bounds(area) == <<SeqMin(area, 1) \div Scale, SeqMin(area, 2) \div Scale,
                  SeqMax(area, 1) \div Scale, SeqMax(area, 2) \div Scale>>

\* Twice the signed area of the triangle a, b, p.
Cross(a, b, p) == (b[1] - a[1]) * (p[2] - a[2]) - (b[2] - a[2]) * (p[1] - a[1])

\* A mutant of contains: covers(), which keeps the points on the boundary.
covers(area, x, y) ==
    LET p == <<x * Scale, y * Scale>>
    IN  \A k \in 1..64 : Cross(area[k], area[(k % 64) + 1], p) <= 0

\* area.contains(Point(x, y)): the point lies in the interior of the convex
\* ring (strictly on the inner side of every edge; the ring is clockwise).
contains(area, x, y) ==
    LET p == <<x * Scale, y * Scale>>
    IN  \A k \in 1..64 : Cross(area[k], area[(k % 64) + 1], p) < 0

\* np.arange(lo, hi, step): lo, lo + step, ... below hi.
arange(lo, hi, step) ==
    [i \in 1..(IF hi > lo THEN CeilDiv(hi - lo, step) ELSE 0) |-> lo + (i - 1) * step]

\* The double loop of create_grid_points: x outer, y inner, a point appended
\* to points_2d when the area contains it; points_3d adds z = 0.
create_grid_points(area, resolution) ==
    LET b  == bounds(area)
        x_coords == arange(b[1], b[3], resolution)
        y_coords == arange(b[2], b[4], resolution)
        ny == Len(y_coords)
        lattice == [k \in 1..(Len(x_coords) * ny) |->
                       <<x_coords[((k - 1) \div ny) + 1], y_coords[((k - 1) % ny) + 1]>>]
        inside(p) == contains(area, p[1], p[2])
        points_2d == SelectSeq(lattice, inside)
    IN  [i \in DOMAIN points_2d |-> <<points_2d[i][1], points_2d[i][2], 0>>]

-----------------------------------------------------------------------------
(* src/solar.py *)

MinutesPerDay == 1440

\* pd.date_range(start, end + 1 day, freq, inclusive="left"): every freq
\* minutes from midnight of start_date up to, not including, midnight after
\* end_date.  A time is <<day of the year, minute of the day>>.
date_range(start_date, end_date, freq) ==
    LET perDay == CeilDiv(MinutesPerDay, freq)
        n == IF end_date >= start_date
             THEN (end_date - start_date + 1) * perDay ELSE 0
    IN  [k \in 1..n |-> <<start_date + ((k - 1) \div perDay), ((k - 1) % perDay) * freq>>]

\* pvlib's Location.get_solarposition, an external ephemeris, stands here as
\* a table for one site near the polar circle: on even days the sun stays
\* below the horizon; on odd days it is up from 11:15 to 12:45, in the
\* south-east before noon, south at noon, south-west after noon.
get_solarposition(t) ==
    LET day == t[1]
        minute == t[2]
        up == (day % 2 = 1) /\ minute > 675 /\ minute < 765
    IN  [time |-> t,
         azimuth |-> IF minute < 720 THEN 127 ELSE IF minute = 720 THEN 180 ELSE 233,
         apparent_elevation |-> IF ~up THEN -5 ELSE IF minute = 720 THEN 53 ELSE 37]

AboveHorizon(row) == row.apparent_elevation > 0

\* get_solar_position: the rows of the period with apparent_elevation > 0;
\* an empty frame when the period has no timestamps.
get_solar_position(start_date, end_date, freq) ==
    LET times == date_range(start_date, end_date, freq)
    IN  IF Len(times) = 0 THEN <<>>
        ELSE SelectSeq([k \in DOMAIN times |-> get_solarposition(times[k])],
                       AboveHorizon)

-----------------------------------------------------------------------------
(* src/simulate.py *)

\* 5 * sin and 5 * cos of the angles (degrees) the ephemeris table gives; the
\* angles 37 and 53 are those of the 3-4-5 triangle, so the values are exact.
Sin5(deg) ==
    CASE deg = 0 -> 0  [] deg = 37 -> 3  [] deg = 53 -> 4  [] deg = 90 -> 5
      [] deg = 127 -> 4  [] deg = 143 -> 3  [] deg = 180 -> 0
      [] deg = 217 -> -3  [] deg = 233 -> -4  [] deg = 270 -> -5

Cos5(deg) ==
    CASE deg = 0 -> 5  [] deg = 37 -> 4  [] deg = 53 -> 3  [] deg = 90 -> 0
      [] deg = 127 -> -3  [] deg = 143 -> -4  [] deg = 180 -> -5
      [] deg = 217 -> -4  [] deg = 233 -> -3  [] deg = 270 -> 0

\* get_sun_vectors: one direction per row, here 25 times the unit vector.
get_sun_vectors(solar_position) ==
    [k \in DOMAIN solar_position |->
        LET az == solar_position[k].azimuth
            el == solar_position[k].apparent_elevation
        IN  <<Sin5(az) * Cos5(el), Cos5(az) * Cos5(el), 5 * Sin5(el)>>]

\* config['tree'] (config.yaml), in half-metres: a trunk of radius 0.5 m and
\* height 2 m, a canopy of semi-axes 1.5 m, 1.5 m, 1 m centred 2.5 m up.
TreeConfig ==
    [trunk  |-> [radius_m |-> 1, height_m |-> 4],
     canopy |-> [x_radius_m |-> 3, y_radius_m |-> 3, z_radius_m |-> 2,
                 vertical_offset_m |-> 5]]

\* create_tree_mesh (src/scene.py): the cylinder standing on the ground plane
\* and the scaled, lifted icosphere, kept as the solids they tessellate.
create_tree_mesh(trunk_radius, trunk_height, canopy_x, canopy_y, canopy_z, v_offset) ==
    [trunk  |-> [radius |-> trunk_radius, height |-> trunk_height],
     canopy |-> [a |-> canopy_x, b |-> canopy_y, c |-> canopy_z, v |-> v_offset]]

\* The ray o + t d, t > 0, meets the trunk cylinder x^2 + y^2 <= r^2,
\* 0 <= z <= h.  The origin lies on the ground plane (z = 0) and d[3] > 0.
RayHitsTrunk(trunk, o, d) ==
    LET a == d[1] * d[1] + d[2] * d[2]
        b == o[1] * d[1] + o[2] * d[2]
        c == o[1] * o[1] + o[2] * o[2] - trunk.radius * trunk.radius
        h == trunk.height
    IN  IF c <= 0 THEN TRUE
        ELSE /\ a > 0
             /\ b < 0
             /\ b * b >= a * c
             /\ \/ (-b) * d[3] <= h * a
                \/ a * h * h + 2 * b * h * d[3] + c * d[3] * d[3] <= 0

\* The ray meets the ellipsoid (x/a)^2 + (y/b)^2 + ((z - v)/c)^2 = 1 at some
\* t > 0: the quadratic A t^2 + 2 B t + C has a positive root.
RayHitsCanopy(canopy, o, d) ==
    LET bc == canopy.b * canopy.c
        ac == canopy.a * canopy.c
        ab == canopy.a * canopy.b
        A == bc * bc * d[1] * d[1] + ac * ac * d[2] * d[2] + ab * ab * d[3] * d[3]
        B == bc * bc * o[1] * d[1] + ac * ac * o[2] * d[2]
               + ab * ab * (o[3] - canopy.v) * d[3]
        C == bc * bc * o[1] * o[1] + ac * ac * o[2] * o[2]
               + ab * ab * (o[3] - canopy.v) * (o[3] - canopy.v)
               - ab * ab * canopy.c * canopy.c
    IN  IF C < 0 THEN TRUE
        ELSE B < 0 /\ B * B >= A * C

\* tree_mesh.ray.intersects_location: the indices of the rays that hit.
index_ray(tree_mesh, ray_origins, sun_vector) ==
    {i \in DOMAIN ray_origins :
        \/ RayHitsTrunk(tree_mesh.trunk, ray_origins[i], sun_vector)
        \/ RayHitsCanopy(tree_mesh.canopy, ray_origins[i], sun_vector)}

\* run_simulation_for_timestep: in_sun_mask has one entry per grid point,
\* all True, then False at the rays that hit the tree.
run_simulation_for_timestep(task) ==
    LET sun_vector == task[1]
        points == task[2]
        tree_mesh == task[3]
        hit == index_ray(tree_mesh, points, sun_vector)
    IN  [i \in 1..Len(points) |-> i \notin hit]

\* run_full_simulation, lines 44-54: the tree and one task per sun vector.
Tasks(solar, points) ==
    LET tree == create_tree_mesh(TreeConfig.trunk.radius_m, TreeConfig.trunk.height_m,
                                 TreeConfig.canopy.x_radius_m, TreeConfig.canopy.y_radius_m,
                                 TreeConfig.canopy.z_radius_m,
                                 TreeConfig.canopy.vertical_offset_m)
        sun_vectors == get_sun_vectors(solar)
    IN  [k \in DOMAIN sun_vectors |-> <<sun_vectors[k], points, tree>>]

\* A mutant of SunlitIntervals: the last column is left out of the sum.
SunlitIntervalsButLast(columns, i) ==
    Cardinality({k \in 1..(Len(columns) - 1) : columns[k][i]})

RECURSIVE SunlitIntervals(_, _)
\* results_df.sum(axis=1) for one point: the columns summed left to right.
SunlitIntervals(columns, i) ==
    IF columns = <<>> THEN 0
    ELSE (IF columns[1][i] THEN 1 ELSE 0) + SunlitIntervals(Tail(columns), i)

\* A mutant of calculate_sun_hours: the division by 60 is missing.
calculate_sun_minutes(df, freq_minutes) ==
    [i \in df.index |-> Frac(SunlitIntervals(df.data, i) * freq_minutes, 1)]

\* calculate_sun_hours: (sunlit_intervals * freq_minutes) / 60.0 per point.
\* results_df is [columns: the times, index: the point numbers, data: one
\* mask per column].
calculate_sun_hours(df, freq_minutes) ==
    [i \in df.index |-> Frac(SunlitIntervals(df.data, i) * freq_minutes, 60)]

\* pool.imap_unordered: the results in the order the workers finished.
imap_unordered(done) == [k \in 1..Len(done) |-> done[k][2]]

\* list(pool.imap(run_simulation_for_timestep, tasks)): imap hands the
\* results over in the order of the tasks, whatever order they finished in.
imap(done) ==
    LET rank(j) == Cardinality({m \in DOMAIN done : done[m][1] <= done[j][1]})
    IN  [k \in 1..Len(done) |-> done[(CHOOSE j \in DOMAIN done : rank(j) = k)][2]]

\* [run_simulation_for_timestep(task) for task in tasks] (line 61).
SequentialResults(tasks) ==
    [k \in DOMAIN tasks |-> run_simulation_for_timestep(tasks[k])]

\* A mutant of AllTasksDone: the results are taken as soon as one task is done.
SomeTaskDone == Len(completed) >= 1

\* Both list(pool.imap(...)) and the list comprehension end only when
\* every task has produced its mask.
AllTasksDone == Len(completed) = Len(Val(solar_pos))

\* pd.DataFrame(np.array(results).T, columns=solar_pos.index, index=p_i).
DataFrame(results, solar, points) ==
    [columns |-> [k \in DOMAIN results |-> solar[k].time],
     index   |-> 1..Len(points),
     data    |-> results]

-----------------------------------------------------------------------------
(* src/visualize.py and scripts/export_dxf.py: the luminosity rule *)

\* config['luminosity_classes'] (config.yaml), hours as rationals.
LuminosityClasses ==
    [full_sun      |-> [min_hours |-> <<1, 1>>],
     partial_shade |-> [min_hours |-> <<1, 2>>]]

\* A mutant of PlanClass: strict comparisons.
PlanClassStrict(h, luminosity_classes) ==
    IF ~FracGeq(luminosity_classes.full_sun.min_hours, h) THEN "full_sun"
    ELSE IF ~FracGeq(luminosity_classes.partial_shade.min_hours, h) THEN "partial_shade"
    ELSE "full_shade"

\* create_planting_plan, lines 54-60: the class of one point.
PlanClass(h, luminosity_classes) ==
    IF FracGeq(h, luminosity_classes.full_sun.min_hours) THEN "full_sun"
    ELSE IF FracGeq(h, luminosity_classes.partial_shade.min_hours) THEN "partial_shade"
    ELSE "full_shade"

\* export_to_dxf, lines 36-41: the layer of one point.
DxfLayer(h, l_classes) ==
    IF FracGeq(h, l_classes.full_sun.min_hours) THEN "FULL_SUN"
    ELSE IF FracGeq(h, l_classes.partial_shade.min_hours) THEN "PARTIAL_SHADE"
    ELSE "FULL_SHADE"

\* name.upper() of export_to_dxf, line 19: the layer a class is drawn on.
LayerOf(class) ==
    CASE class = "full_sun" -> "FULL_SUN"
      [] class = "partial_shade" -> "PARTIAL_SHADE"
      [] class = "full_shade" -> "FULL_SHADE"

-----------------------------------------------------------------------------
(* app.py: run_cached_simulation *)

CloudMaxPoints == 200

CloudMaxTimesteps == 100

\* seq[::step]
Stride(seq, step) == [j \in 1..CeilDiv(Len(seq), step) |-> seq[(j - 1) * step + 1]]

\* seq[:n]
Take(seq, n) == SubSeq(seq, 1, Min(n, Len(seq)))

\* Lines 53-56 and 65-68: under the Cloud profile a sequence longer than the
\* limit is cut to seq[::len // limit][:limit], and a message is shown.
CloudLimit(seq, limit, cloud, msg) ==
    IF cloud /\ Len(seq) > limit
    THEN [value |-> Take(Stride(seq, Len(seq) \div limit), limit), msgs |-> {msg}]
    ELSE [value |-> seq, msgs |-> {}]

\* The cache key: the arguments of run_cached_simulation (latitude, longitude
\* and timezone are those of the one site).
Key(a) == [start_date |-> a.start_date, end_date |-> a.end_date, freq |-> a.freq,
           radius |-> a.radius, resolution |-> a.resolution]

\* Lines 48-68: the grid and the solar positions of a run, and the messages
\* shown on the way.
Prepare(a, cloud) ==
    LET area == create_circular_area(a.radius)
        grid == CloudLimit(create_grid_points(area, a.resolution), CloudMaxPoints,
                           cloud, "warning: points reduced")
        solar == get_solar_position(a.start_date, a.end_date, a.freq)
        cut == CloudLimit(solar, CloudMaxTimesteps, cloud, "info: timesteps reduced")
    IN  [grid_points |-> grid.value,
         solar_pos   |-> IF solar = <<>> THEN solar ELSE cut.value,
         msgs        |-> grid.msgs \cup (IF solar = <<>> THEN {} ELSE cut.msgs)]

NoSolarData == "Nao ha dados solares para o periodo selecionado"

\* A mutant of CachedTriple: the vector kept in the cache is the one the
\* script divides in place.
CachedTripleAdjustedInPlace(r, a) ==
    IF a.sim_type = "Anual"
    THEN <<r[1],
           Some([i \in DOMAIN Val(r[2]) |->
                    FracDiv(Val(r[2])[i], a.end_date - a.start_date + 1)]),
           r[3]>>
    ELSE r

\* Line 76 under st.cache_data (line 44): the triple is stored as returned.
\* Line 214 binds sun_hours to a new array, sun_hours / num_days, and every
\* later hit is handed a copy of the stored value.
CachedTriple(r, a) == r

\* Lines 78-79: what run_cached_simulation returns when anything inside its
\* try block raised, f"Erro na simulacao: {str(e)}".
SimulationError == "Erro na simulacao"

ExceptReturn == <<None, None, Some(SimulationError)>>

-----------------------------------------------------------------------------
(* app.py: the script after run_cached_simulation returned (lines 202-322) *)

\* A mutant of num_days: only the days that have a timestep above the horizon.
num_days_with_sun(start_date, end_date) ==
    IF solar_pos = None THEN end_date - start_date + 1
    ELSE Cardinality({Val(solar_pos)[k].time[1] : k \in DOMAIN Val(solar_pos)})

\* Line 213: (pd.to_datetime(end_date) - pd.to_datetime(start_date)).days + 1.
num_days(start_date, end_date) == end_date - start_date + 1

\* Lines 212-214: the daily average of an annual run.
Adjusted(hours, a) ==
    IF a.sim_type = "Anual"
    THEN [i \in DOMAIN hours |-> FracDiv(hours[i], num_days(a.start_date, a.end_date))]
    ELSE hours

\* A mutant of StoredGridPoints: the grid is stored only the first time.
StoredGridPointsOnce(r) ==
    IF session_grid_points = None THEN r[1] ELSE session_grid_points

\* Line 217: st.session_state.grid_points = grid_points.
StoredGridPoints(r) == r[1]

\* A mutant of SessionAfterError: the stored result is dropped.
SessionCleared == <<None, None>>

\* Lines 204-209: the error branches show st.error and assign nothing to
\* st.session_state.
SessionAfterError == <<session_sun_hours, session_grid_points>>

\* The script from line 202 on, r being the triple run_cached_simulation
\* returned and msgs the messages shown inside it.
ScriptTail(r, a, msgs) ==
    LET failed == r[3] # None \/ r[1] = None
        hours == IF failed THEN None ELSE Some(Adjusted(Val(r[2]), a))
        new_hours == IF failed THEN SessionAfterError[1] ELSE hours
        new_grid  == IF failed THEN SessionAfterError[2] ELSE StoredGridPoints(r)
        shown == new_hours # None /\ new_grid # None
    IN  /\ ret' = r
        /\ sun_hours' = hours
        /\ session_sun_hours' = new_hours
        /\ session_grid_points' = new_grid
        /\ signals' = msgs \cup (IF failed THEN {"error"} ELSE {"success"})
        /\ point_classes' =
              IF shown
              THEN Some([i \in DOMAIN Val(new_hours) |->
                            PlanClass(Val(new_hours)[i], LuminosityClasses)])
              ELSE point_classes
        /\ dxf_layers' =
              IF shown
              THEN Some([i \in DOMAIN Val(new_hours) |->
                            DxfLayer(Val(new_hours)[i], LuminosityClasses)])
              ELSE dxf_layers
        /\ reported' = IF failed THEN reported ELSE reported \cup {<<a, Val(hours)>>}
        /\ pc' = "idle"

-----------------------------------------------------------------------------
(* app.py: the widgets and the run button *)

SimTypes == {"Data Especifica", "Anual"}

\* The frequency slider at '30min', in minutes.
Freqs == {30}

\* The date picker at a day with sun and at a day of polar night.
Dates == {1, 2}

\* The radius slider at its minimum, 5 m.
Radii == {10}

\* The resolution slider at 2.5 m and 3.0 m.
Resolutions == {5, 6}

\* Lines 133-142: the period of the chosen simulation type.
Inputs ==
    {[sim_type |-> "Anual", start_date |-> 1, end_date |-> DaysInYear, freq |-> f,
      radius |-> r, resolution |-> s] : f \in Freqs, r \in Radii, s \in Resolutions}
    \cup
    {[sim_type |-> "Data Especifica", start_date |-> d, end_date |-> d, freq |-> f,
      radius |-> r, resolution |-> s] :
        d \in Dates, f \in Freqs, r \in Radii, s \in Resolutions}

\* config['simulation']: sequential, or a pool of one or of two workers.
Configs ==
    {[use_multiprocessing |-> FALSE, cpu_cores |-> 1]}
    \cup {[use_multiprocessing |-> TRUE, cpu_cores |-> c] : c \in {1, 2}}

Init ==
    /\ IS_CLOUD \in BOOLEAN
    /\ config \in Configs
    /\ session_sun_hours = None
    /\ session_grid_points = None
    /\ cache = {}
    /\ pc = "idle"
    /\ args = None
    /\ grid_points = None
    /\ solar_pos = None
    /\ inflight = {}
    /\ completed = <<>>
    /\ results_df = None
    /\ ret = None
    /\ sun_hours = None
    /\ signals = {}
    /\ point_classes = None
    /\ dxf_layers = None
    /\ runs = 0
    /\ reported = {}
    /\ fn_args = None
    /\ fn_ret = None

\* Prepare at every widget value and profile, evaluated once.
Prepared == [a \in Inputs, cloud \in BOOLEAN |-> Prepare(a, cloud)]

Cached(a) == {e \in cache : e.key = Key(a)}

\* ttl=3600 (line 44): at a lookup the entry of the key is either still
\* fresh or has grown old; an old entry, like a missing one, makes the
\* function run again, and its result takes the entry's place.
Fresh(a) == IF Cached(a) = {} THEN {FALSE} ELSE {TRUE, FALSE}

Store(a, value, msgs) ==
    (cache \ Cached(a)) \cup {[key |-> Key(a), value |-> value, msgs |-> msgs]}

\* The button pressed with arguments the cache holds: the stored triple is
\* returned, the messages stored with it are shown again.
RunCacheHit(a) ==
    /\ pc = "idle"
    /\ runs < MaxRuns
    /\ TRUE \in Fresh(a)
    /\ LET e == CHOOSE e \in Cached(a) : TRUE
       IN  ScriptTail(e.value, a, e.msgs)
    /\ args' = Some(a)
    /\ runs' = runs + 1
    /\ grid_points' = None
    /\ solar_pos' = None
    /\ results_df' = None
    /\ completed' = <<>>
    /\ UNCHANGED <<IS_CLOUD, config, cache, inflight, fn_args, fn_ret>>

\* The button pressed, the ephemeris has no row above the horizon: lines 61-62.
RunNoSolarData(a) ==
    /\ pc = "idle"
    /\ runs < MaxRuns
    /\ FALSE \in Fresh(a)
    /\ \E p \in {Prepared[a, IS_CLOUD]} :
           LET r == <<None, None, Some(NoSolarData)>>
           IN
           /\ p.solar_pos = <<>>
           /\ grid_points' = Some(p.grid_points)
           /\ solar_pos' = Some(p.solar_pos)
           /\ cache' = Store(a, r, p.msgs)
           /\ ScriptTail(r, a, p.msgs)
    /\ args' = Some(a)
    /\ runs' = runs + 1
    /\ results_df' = None
    /\ completed' = <<>>
    /\ UNCHANGED <<IS_CLOUD, config, inflight, fn_args, fn_ret>>

\* The button pressed, the simulation starts: the tasks are made and, with
\* multiprocessing, the pool's workers take the first of them.
RunStart(a) ==
    /\ pc = "idle"
    /\ runs < MaxRuns
    /\ FALSE \in Fresh(a)
    /\ \E p \in {Prepared[a, IS_CLOUD]} :
           /\ p.solar_pos # <<>>
           /\ grid_points' = Some(p.grid_points)
           /\ solar_pos' = Some(p.solar_pos)
           /\ signals' = p.msgs
           /\ inflight' = IF config.use_multiprocessing
                          THEN 1..Min(config.cpu_cores, Len(p.solar_pos))
                          ELSE {}
    /\ pc' = "simulating"
    /\ args' = Some(a)
    /\ runs' = runs + 1
    /\ results_df' = None
    /\ completed' = <<>>
    /\ ret' = None
    /\ sun_hours' = None
    /\ UNCHANGED <<IS_CLOUD, config, cache, session_sun_hours, session_grid_points,
                   point_classes, dxf_layers, reported, fn_args, fn_ret>>

\* A worker of the pool finishes task i and takes the next task not yet taken.
WorkerFinish(i) ==
    /\ pc = "simulating"
    /\ config.use_multiprocessing
    /\ i \in inflight
    /\ LET tasks == Tasks(Val(solar_pos), Val(grid_points))
           next == Len(completed) + Cardinality(inflight) + 1
       IN  /\ completed' = Append(completed, <<i, run_simulation_for_timestep(tasks[i])>>)
           /\ inflight' = (inflight \ {i})
                             \cup (IF next <= Len(tasks) THEN {next} ELSE {})
    /\ UNCHANGED <<IS_CLOUD, config, session_sun_hours, session_grid_points, cache, pc,
                   args, grid_points, solar_pos, results_df, ret, sun_hours, signals,
                   point_classes, dxf_layers, runs, reported, fn_args, fn_ret>>

\* Without multiprocessing the list comprehension runs the next task.
SequentialStep ==
    /\ pc = "simulating"
    /\ ~config.use_multiprocessing
    /\ Len(completed) < Len(Val(solar_pos))
    /\ LET tasks == Tasks(Val(solar_pos), Val(grid_points))
           i == Len(completed) + 1
       IN  completed' = Append(completed, <<i, run_simulation_for_timestep(tasks[i])>>)
    /\ UNCHANGED <<IS_CLOUD, config, session_sun_hours, session_grid_points, cache, pc,
                   args, grid_points, solar_pos, inflight, results_df, ret, sun_hours,
                   signals, point_classes, dxf_layers, runs, reported, fn_args, fn_ret>>

\* The occlusion test of a timestep raises.  The sequential loop raises at
\* once; the list over pool.imap raises when it comes to that task, the
\* results of the earlier tasks having been taken, and leaving the with block
\* terminates the pool.  No frame is built and the masks made so far are
\* dropped with the frame of run_full_simulation: the except clause of
\* run_cached_simulation returns the error triple, which is cached as any
\* returned value is, and the script reports it.
TaskRaises(i) ==
    /\ pc = "simulating"
    /\ IF config.use_multiprocessing
       THEN /\ i \in inflight
            /\ \A j \in 1..(i - 1) : \E k \in DOMAIN completed : completed[k][1] = j
       ELSE i = Len(completed) + 1 /\ i <= Len(Val(solar_pos))
    /\ inflight' = {}
    /\ completed' = <<>>
    /\ cache' = Store(Val(args), ExceptReturn, signals)
    /\ ScriptTail(ExceptReturn, Val(args), signals)
    /\ UNCHANGED <<IS_CLOUD, config, args, grid_points, solar_pos, results_df, runs,
                   fn_args, fn_ret>>

\* All masks are there: the frame is built, the hours are summed, the triple
\* is returned and cached, and the script stores and draws the result.
FinishRun ==
    /\ pc = "simulating"
    /\ AllTasksDone
    /\ LET a == Val(args)
           results == IF config.use_multiprocessing
                      THEN imap(completed)
                      ELSE [k \in 1..Len(completed) |-> completed[k][2]]
           df == DataFrame(results, Val(solar_pos), Val(grid_points))
           total_sun_hours == calculate_sun_hours(df, a.freq)
           r == <<grid_points, Some(total_sun_hours), None>>
       IN  /\ results_df' = Some(df)
           /\ cache' = Store(a, CachedTriple(r, a), signals)
           /\ ScriptTail(r, a, signals)
    /\ UNCHANGED <<IS_CLOUD, config, args, grid_points, solar_pos, inflight, completed,
                   runs, fn_args, fn_ret>>

Next ==
    \/ \E a \in Inputs : RunCacheHit(a)
    \/ \E a \in Inputs : RunNoSolarData(a)
    \/ \E a \in Inputs : RunStart(a)
    \/ \E i \in inflight : WorkerFinish(i)
    \/ SequentialStep
    \/ \E i \in 1..(Len(completed) + 1) : TaskRaises(i)
    \/ FinishRun

Spec == Init /\ [][Next]_vars

-----------------------------------------------------------------------------
(* Properties of the dashboard runs (Spec) *)

\* Point p sees the sun in direction v: its ray meets neither trunk nor canopy.
PointInSun(p, v) ==
    LET mesh == create_tree_mesh(TreeConfig.trunk.radius_m, TreeConfig.trunk.height_m,
                                 TreeConfig.canopy.x_radius_m, TreeConfig.canopy.y_radius_m,
                                 TreeConfig.canopy.z_radius_m,
                                 TreeConfig.canopy.vertical_offset_m)
    IN  ~(RayHitsTrunk(mesh.trunk, p, v) \/ RayHitsCanopy(mesh.canopy, p, v))

\* Sunlit hours of point i from the columns of calendar day d alone.
DayTotal(df, freq, d, i) ==
    Frac(Cardinality({k \in DOMAIN df.data : df.columns[k][1] = d /\ df.data[k][i]}) * freq,
         60)

RECURSIVE SumOfDayTotals(_, _, _, _, _)
SumOfDayTotals(df, freq, d, last, i) ==
    IF d > last THEN <<0, 1>>
    ELSE FracAdd(DayTotal(df, freq, d, i), SumOfDayTotals(df, freq, d + 1, last, i))

\* C2: for an 'Anual' request the reported hours of every point are the sum of
\* the per-day totals divided by the number D of calendar days of the period,
\* days without any timestep above the horizon included; for a single-day
\* request the total is reported undivided.
C2_AnnualAverage ==
    (pc = "idle" /\ results_df # None /\ sun_hours # None) =>
        LET a == Val(args)
            df == Val(results_df)
            D == Cardinality(a.start_date..a.end_date)
        IN  \A i \in df.index :
                LET total == SumOfDayTotals(df, a.freq, a.start_date, a.end_date, i)
                IN  Val(sun_hours)[i] =
                        IF a.sim_type = "Anual" THEN FracDiv(total, D) ELSE total

\* An annual run has ended whose period has a day without any timestep above
\* the horizon, and some point got sun.
C2_Witness ==
    /\ pc = "idle"
    /\ results_df # None
    /\ sun_hours # None
    /\ Val(args).sim_type = "Anual"
    /\ \E d \in Val(args).start_date..Val(args).end_date :
           \A k \in DOMAIN Val(results_df).columns : Val(results_df).columns[k][1] # d
    /\ \E i \in DOMAIN Val(sun_hours) : Val(sun_hours)[i][1] > 0

\* C4: when the ephemeris has no row above the horizon for the period, the
\* run is no error: the caller gets the grid and a vector of zero hours.
C4_EmptyEphemerisGivesZeroHours ==
    (pc = "idle" /\ solar_pos = Some(<<>>)) =>
        /\ ret[3] = None
        /\ ret[1] = grid_points
        /\ ret[2] # None
        /\ DOMAIN Val(ret[2]) = DOMAIN Val(grid_points)
        /\ \A i \in DOMAIN Val(ret[2]) : Val(ret[2])[i] = <<0, 1>>
        /\ "error" \notin signals

\* C5: with or without the worker pool, whatever the number of workers and the
\* order in which they finish, the frame holds for every timestep the mask the
\* sequential loop computes for it, under that timestep's label, and the
\* sunlit hours are those of the sequential run.
C5_PoolEqualsSequential ==
    results_df # None =>
        LET df == Val(results_df)
            solar == Val(solar_pos)
            sequential == SequentialResults(Tasks(solar, Val(grid_points)))
        IN  /\ df.data = sequential
            /\ df.columns = [k \in DOMAIN solar |-> solar[k].time]
            /\ ret[2] = Some(calculate_sun_hours(
                                DataFrame(sequential, solar, Val(grid_points)),
                                Val(args).freq))

\* A pool run has ended in which some task finished before an earlier one.
C5_Witness ==
    /\ results_df # None
    /\ config.use_multiprocessing
    /\ \E j \in DOMAIN completed : completed[j][1] # j

\* The hours a run with widget values a reports, computed point by point.
ExpectedHours(a, cloud) ==
    LET p == Prepare(a, cloud)
        vs == get_sun_vectors(p.solar_pos)
        D == a.end_date - a.start_date + 1
    IN  [i \in 1..Len(p.grid_points) |->
            LET n == Cardinality({k \in DOMAIN vs : PointInSun(p.grid_points[i], vs[k])})
            IN  IF a.sim_type = "Anual" THEN Frac(n * a.freq, 60 * D)
                ELSE Frac(n * a.freq, 60)]

Expected == [a \in Inputs, cloud \in BOOLEAN |-> ExpectedHours(a, cloud)]

\* C6: every mask has one entry per grid point, entry i telling of point i;
\* the returned hours have the length of the returned grid; and the stored
\* pair grid_points / sun_hours is that of one run, index for index.
C6_MasksAndHoursAligned ==
    /\ \A j \in DOMAIN completed :
           LET mask == completed[j][2]
               v == get_sun_vectors(Val(solar_pos))[completed[j][1]]
           IN  /\ DOMAIN mask = DOMAIN Val(grid_points)
               /\ \A i \in DOMAIN mask : mask[i] = PointInSun(Val(grid_points)[i], v)
    /\ (ret # None /\ ret[1] # None) =>
           /\ ret[2] # None
           /\ DOMAIN Val(ret[2]) = DOMAIN Val(ret[1])
    /\ session_sun_hours = None <=> session_grid_points = None
    /\ session_sun_hours # None =>
           \E a \in Inputs :
               /\ session_grid_points = Some(Prepared[a, IS_CLOUD].grid_points)
               /\ session_sun_hours = Some(Expected[a, IS_CLOUD])

\* Two runs on different grids have ended well, the second one stored.
C6_Witness ==
    /\ pc = "idle"
    /\ runs = 2
    /\ ret # None
    /\ ret[3] = None
    /\ session_grid_points = ret[1]
    /\ \E e \in cache : e.value[3] = None /\ e.value[1] # ret[1]

\* The calendar days of the masks held while the timestep tasks run.
DaysInMemory == {Val(solar_pos)[completed[j][1]].time[1] : j \in DOMAIN completed}

RunRaised == ret # None /\ ret[3] = Some(SimulationError)

\* C11: when the occlusion test of one timestep raises, the run ends there:
\* no frame is built and no hours are computed from the masks of the other
\* timesteps, the caller gets the error report and no result, the stored
\* sun_hours / grid_points stay what they were, and nothing runs again until
\* the button is pressed.
C11_FailedTimestepFailsRun ==
    [][/\ RunRaised' =>
            /\ ret'[1] = None /\ ret'[2] = None
            /\ results_df' = None /\ sun_hours' = None
            /\ "error" \in signals' /\ "success" \notin signals'
            /\ pc' = "idle" /\ inflight' = {}
            /\ session_sun_hours' = session_sun_hours
            /\ session_grid_points' = session_grid_points
       /\ RunRaised => runs' = runs + 1]_vars

\* A timestep of a run on fresh arguments raised while the result of an
\* earlier run was stored.
C11_Witness ==
    /\ RunRaised
    /\ pc = "idle"
    /\ solar_pos # None
    /\ session_sun_hours # None
    /\ Val(args) \notin {x[1] : x \in reported}
    /\ runs = 2

\* C13: whenever the pipeline has run more than once on the same widget
\* values, recomputed or served from the cache, single day or 'Anual', every
\* one of these runs reported the same sunlit-hours vector; the vector kept
\* in the cache is the undivided total, and no step changes a cached vector.
C13_RepeatedRunsAgree ==
    [][/\ \A x, y \in reported' : x[1] = y[1] => x[2] = y[2]
       /\ \A e \in cache : \A f \in cache' :
              (f.key = e.key /\ e.value[3] = None /\ f.value[3] = None) =>
                  f.value = e.value
       /\ (pc' = "idle" /\ ret' # None /\ ret'[3] = None) =>
              /\ sun_hours' = Some(Adjusted(Val(ret'[2]), Val(args')))
              /\ <<Val(args'), Val(sun_hours')>> \in reported']_vars

\* The same 'Anual' request was answered a second time, from the cache, and
\* some point got sun.
C13_Witness ==
    /\ runs = 2
    /\ pc = "idle"
    /\ ret # None
    /\ ret[3] = None
    /\ results_df = None
    /\ Val(args).sim_type = "Anual"
    /\ reported = {<<Val(args), Val(sun_hours)>>}
    /\ \E i \in DOMAIN Val(sun_hours) : Val(sun_hours)[i][1] > 0

-----------------------------------------------------------------------------
(* The dashboard before any run (app.py:90-94), used where a function is   *)
(* applied on its own.                                                     *)

MainQuiet ==
    /\ IS_CLOUD = FALSE
    /\ config = [use_multiprocessing |-> FALSE, cpu_cores |-> 1]
    /\ session_sun_hours = None
    /\ session_grid_points = None
    /\ cache = {}
    /\ pc = "idle"
    /\ args = None
    /\ grid_points = None
    /\ solar_pos = None
    /\ inflight = {}
    /\ completed = <<>>
    /\ results_df = None
    /\ ret = None
    /\ sun_hours = None
    /\ signals = {}
    /\ point_classes = None
    /\ dxf_layers = None
    /\ runs = 0
    /\ reported = {}

-----------------------------------------------------------------------------
(* create_grid_points applied to create_circular_area(r), for every radius *)
(* and resolution within the bounds.                                       *)

InitGrid ==
    /\ MainQuiet
    /\ fn_args \in [radius : 1..MaxRadius, resolution : 1..MaxResolution]
    /\ fn_ret = None

CallCreateGridPoints ==
    /\ fn_ret = None
    /\ fn_ret' = Some(create_grid_points(create_circular_area(fn_args.radius),
                                         fn_args.resolution))
    /\ UNCHANGED <<fn_args, mainVars>>

NextGrid == CallCreateGridPoints

SpecGrid == InitGrid /\ [][NextGrid]_vars

\* C1: every point create_grid_points returns for the circular area of radius
\* r lies strictly inside the circle (x^2 + y^2 < r^2) and has z = 0.
C1_GridStrictlyInside ==
    fn_ret # None =>
        \A i \in DOMAIN Val(fn_ret) :
            LET p == Val(fn_ret)[i]
            IN  /\ p[1] * p[1] + p[2] * p[2] < fn_args.radius * fn_args.radius
                /\ p[3] = 0

\* A grid was built whose lattice has points exactly on the circle (at least
\* (-r, 0) and (0, -r)), and some lattice point was retained.
C1_Witness ==
    /\ fn_ret # None
    /\ Len(Val(fn_ret)) > 0
    /\ fn_args.radius % fn_args.resolution = 0

-----------------------------------------------------------------------------
(* calculate_sun_hours applied to every list of at most MaxTimesteps masks  *)
(* over two points, at every sampling interval, and to a permutation of the *)
(* list.                                                                    *)

AggPoints == {1, 2}

\* '1H', '30min', '15min' in minutes (app.py:144).
FreqMinutes == {60, 30, 15}

PermutationsOf(n) == {f \in [1..n -> 1..n] : \A x, y \in 1..n : f[x] = f[y] => x = y}

InitAgg ==
    /\ MainQuiet
    /\ \E n \in 1..MaxTimesteps :
           fn_args \in [masks : [1..n -> [AggPoints -> BOOLEAN]],
                        freq_minutes : FreqMinutes,
                        perm : PermutationsOf(n)]
    /\ fn_ret = None

\* The frame of a list of masks, its columns labelled by position.
FrameOf(masks) ==
    [columns |-> [k \in DOMAIN masks |-> <<1, k>>], index |-> AggPoints, data |-> masks]

CallCalculateSunHours ==
    /\ fn_ret = None
    /\ LET permuted == [k \in DOMAIN fn_args.masks |-> fn_args.masks[fn_args.perm[k]]]
       IN  fn_ret' = Some([hours    |-> calculate_sun_hours(FrameOf(fn_args.masks),
                                                            fn_args.freq_minutes),
                           permuted |-> calculate_sun_hours(FrameOf(permuted),
                                                            fn_args.freq_minutes)])
    /\ UNCHANGED <<fn_args, mainVars>>

NextAgg == CallCalculateSunHours

SpecAgg == InitAgg /\ [][NextAgg]_vars

\* C3: calculate_sun_hours gives every point (number of masks in which the
\* point is true) * interval_minutes / 60.
C3_HoursAreCountTimesInterval ==
    fn_ret # None =>
        \A i \in AggPoints :
            LET count == Cardinality({k \in DOMAIN fn_args.masks : fn_args.masks[k][i]})
                h == Val(fn_ret).hours[i]
            IN  /\ h[2] > 0
                /\ h[1] * 60 = count * fn_args.freq_minutes * h[2]

\* At an interval of 30 minutes a point sunlit in 2 of 3 timesteps got 1.0 hour.
C3_Witness ==
    /\ fn_ret # None
    /\ fn_args.freq_minutes = 30
    /\ Len(fn_args.masks) = 3
    /\ Cardinality({k \in DOMAIN fn_args.masks : fn_args.masks[k][1]}) = 2
    /\ Val(fn_ret).hours[1] = <<1, 1>>

\* C9: the masks permuted before the aggregation give the same hours.
C9_OrderIndependent ==
    fn_ret # None => Val(fn_ret).permuted = Val(fn_ret).hours

\* A list of three masks, the first and the last differing, was reversed.
C9_Witness ==
    /\ fn_ret # None
    /\ Len(fn_args.masks) = 3
    /\ fn_args.perm = <<3, 2, 1>>
    /\ fn_args.masks[1] # fn_args.masks[3]

-----------------------------------------------------------------------------
(* The luminosity rule of the planting plan and of the DXF export applied  *)
(* to pairs of sunlit-hours values, in quarter hours, under several         *)
(* threshold configurations.                                                *)

ThresholdConfigs ==
    {[full_sun |-> [min_hours |-> <<fs, 1>>], partial_shade |-> [min_hours |-> <<ps, 1>>]] :
        fs \in {6, 4}, ps \in {4, 3}}

InitClassify ==
    /\ MainQuiet
    /\ fn_args \in [h1 : {Frac(n, 4) : n \in 0..MaxQuarterHours},
                    h2 : {Frac(n, 4) : n \in 0..MaxQuarterHours},
                    luminosity_classes : ThresholdConfigs]
    /\ fn_ret = None

CallClassify ==
    /\ fn_ret = None
    /\ fn_ret' = Some([plan |-> <<PlanClass(fn_args.h1, fn_args.luminosity_classes),
                                  PlanClass(fn_args.h2, fn_args.luminosity_classes)>>,
                       dxf  |-> <<DxfLayer(fn_args.h1, fn_args.luminosity_classes),
                                  DxfLayer(fn_args.h2, fn_args.luminosity_classes)>>])
    /\ UNCHANGED <<fn_args, mainVars>>

NextClassify == CallClassify

SpecClassify == InitClassify /\ [][NextClassify]_vars

\* full_shade < partial_shade < full_sun
SunRank(class) ==
    CASE class = "full_shade" -> 0 [] class = "partial_shade" -> 1 [] class = "full_sun" -> 2

\* C7: every value gets one of the three classes, the one the thresholds
\* prescribe; a larger value never gets a less sunlit class; the planting
\* plan and the DXF export give a value the same class.
C7_ClassifierTotalMonotone ==
    fn_ret # None =>
        LET r == Val(fn_ret)
            fs == fn_args.luminosity_classes.full_sun.min_hours
            ps == fn_args.luminosity_classes.partial_shade.min_hours
            h == <<fn_args.h1, fn_args.h2>>
        IN  /\ \A j \in 1..2 :
                   /\ r.plan[j] \in {"full_sun", "partial_shade", "full_shade"}
                   /\ r.plan[j] = "full_sun" <=> FracGeq(h[j], fs)
                   /\ r.plan[j] = "partial_shade" <=> (~FracGeq(h[j], fs) /\ FracGeq(h[j], ps))
                   /\ r.dxf[j] = LayerOf(r.plan[j])
            /\ FracGeq(h[2], h[1]) => SunRank(r.plan[2]) >= SunRank(r.plan[1])

\* A value exactly at the full-sun threshold and a smaller one exactly at the
\* partial-shade threshold were classified.
C7_Witness ==
    /\ fn_ret # None
    /\ fn_args.h2 = fn_args.luminosity_classes.full_sun.min_hours
    /\ fn_args.h1 = fn_args.luminosity_classes.partial_shade.min_hours
    /\ Val(fn_ret).plan = <<"partial_shade", "full_sun">>

-----------------------------------------------------------------------------
(* The Cloud limit of run_cached_simulation applied, under the Cloud        *)
(* profile, to grids and timestep lists of every length up to MaxLen; an    *)
(* entry is named by its index in the original sequence, from 0.            *)

InitLimit ==
    /\ MainQuiet
    /\ fn_args \in [what : {"points", "timesteps"}, n : 0..MaxLen]
    /\ fn_ret = None

CallCloudLimit ==
    /\ fn_ret = None
    /\ LET seq == [k \in 1..fn_args.n |-> k - 1]
       IN  fn_ret' = Some(IF fn_args.what = "points"
                          THEN CloudLimit(seq, CloudMaxPoints, TRUE,
                                          "warning: points reduced")
                          ELSE CloudLimit(seq, CloudMaxTimesteps, TRUE,
                                          "info: timesteps reduced"))
    /\ UNCHANGED <<fn_args, mainVars>>

NextLimit == CallCloudLimit

SpecLimit == InitLimit /\ [][NextLimit]_vars

\* C8: a sequence longer than the Cloud limit is cut to the entries at the
\* indices 0, k, 2k, ... for one stride k, up to the end of the sequence (fewer
\* than k entries follow the last one kept), and a message tells of the cut.
C8_UniformStrideSpansSequence ==
    (fn_ret # None
       /\ fn_args.n > (IF fn_args.what = "points" THEN CloudMaxPoints
                       ELSE CloudMaxTimesteps)) =>
        LET kept == Val(fn_ret).value
            k == kept[2] - kept[1]
        IN  /\ k >= 1
            /\ \A j \in DOMAIN kept : kept[j] = (j - 1) * k
            /\ (fn_args.n - 1) - kept[Len(kept)] < k
            /\ Val(fn_ret).msgs # {}

-----------------------------------------------------------------------------
(* The pipeline create_grid_points, run_full_simulation (sequential),      *)
(* calculate_sun_hours applied on its own to small circles, for every      *)
(* resolution within the bounds, on a day with sun.                        *)

\* Radii of 0.5 m, 1 m and 1.5 m: circles a coarse lattice misses.
SmallRadii == {1, 2, 3}

\* What tree_mesh.ray.intersects_location (simulate.py:33-36) can do with
\* the rays of a grid.  For an empty grid ray_origins is np.array([]) of
\* shape (0,) (scene.py:23) and ray_directions has shape (0, 3) (line 29):
\* whether the intersector takes that pair and reports no hit, or raises on
\* it, is the library's; both are kept.
IntersectorOutcomes(ray_origins) ==
    IF ray_origins = <<>> THEN {"returns", "raises"} ELSE {"returns"}

InitPipeline ==
    /\ MainQuiet
    /\ fn_args \in [radius : SmallRadii, resolution : 1..MaxResolution,
                    freq : FreqMinutes]
    /\ fn_ret = None

\* create_grid_points(create_circular_area(radius), resolution) and the
\* solar positions of day 1.
PipeCreateGridPoints ==
    /\ fn_ret = None
    /\ fn_ret' = Some([grid_points |-> create_grid_points(
                                          create_circular_area(fn_args.radius),
                                          fn_args.resolution),
                       solar_pos |-> get_solar_position(1, 1, fn_args.freq),
                       results |-> <<>>,
                       results_df |-> None,
                       total_sun_hours |-> None,
                       raised |-> FALSE])
    /\ UNCHANGED <<mainVars, fn_args>>

\* One iteration of the list comprehension of run_full_simulation (line 61)
\* in which the intersector returns.
PipeTimestep ==
    /\ fn_ret # None
    /\ ~Val(fn_ret).raised
    /\ Val(fn_ret).results_df = None
    /\ LET st == Val(fn_ret)
           tasks == Tasks(st.solar_pos, st.grid_points)
       IN  /\ Len(st.results) < Len(tasks)
           /\ "returns" \in IntersectorOutcomes(st.grid_points)
           /\ fn_ret' = Some([st EXCEPT !.results =
                                 Append(@, run_simulation_for_timestep(
                                               tasks[Len(st.results) + 1]))])
    /\ UNCHANGED <<mainVars, fn_args>>

\* One iteration in which the intersector raises: run_full_simulation is
\* left by the exception, no frame and no hours are made.
PipeTimestepRaises ==
    /\ fn_ret # None
    /\ ~Val(fn_ret).raised
    /\ Val(fn_ret).results_df = None
    /\ LET st == Val(fn_ret)
           tasks == Tasks(st.solar_pos, st.grid_points)
       IN  /\ Len(st.results) < Len(tasks)
           /\ "raises" \in IntersectorOutcomes(st.grid_points)
           /\ fn_ret' = Some([st EXCEPT !.raised = TRUE])
    /\ UNCHANGED <<mainVars, fn_args>>

\* Lines 63-67 of run_full_simulation, then calculate_sun_hours.
PipeAggregate ==
    /\ fn_ret # None
    /\ ~Val(fn_ret).raised
    /\ Val(fn_ret).results_df = None
    /\ LET st == Val(fn_ret)
           df == DataFrame(st.results, st.solar_pos, st.grid_points)
       IN  /\ Len(st.results) = Len(st.solar_pos)
           /\ fn_ret' = Some([st EXCEPT !.results_df = Some(df),
                                        !.total_sun_hours =
                                            Some(calculate_sun_hours(df, fn_args.freq))])
    /\ UNCHANGED <<mainVars, fn_args>>

NextPipeline ==
    \/ PipeCreateGridPoints
    \/ PipeTimestep
    \/ PipeTimestepRaises
    \/ PipeAggregate

SpecPipeline == InitPipeline /\ [][NextPipeline]_vars

\* C12: when no lattice point lies strictly inside the circle the grid is
\* empty, the timestep simulation and the aggregation go through without
\* raising, and the sunlit-hours vector they end with is empty.
C12_EmptyGridGivesEmptyHours ==
    (fn_ret # None /\ Val(fn_ret).grid_points = <<>>) =>
        /\ ~Val(fn_ret).raised
        /\ Val(fn_ret).results_df # None => Val(fn_ret).total_sun_hours = Some(<<>>)

====
